---- MODULE Spec2Model ----
(***************************************************************************)
(* A model of script_finder.py: the ScanWorker and DownloadWorker threads, *)
(* the ScriptFinder window that starts them and handles their signals, and *)
(* the pure helpers of ScanWorker (_is_pdf_link, _matches_filter,          *)
(* _extract_filename).                                                     *)
(*                                                                         *)
(* Text is a sequence of characters, each a one-character string.  A       *)
(* percent escape of a URL ("%3F", "%2F", "%20") is one element of the     *)
(* sequence: unquote turns it into the character it encodes.               *)
(***************************************************************************)
EXTENDS Integers, Sequences, FiniteSets, TLC

VARIABLES
    is_scanning,        \* ScriptFinder.is_scanning
    found_pdfs,         \* ScriptFinder.found_pdfs: list of <<filename, url>>
    results_tree,       \* ScriptFinder.results_tree: rows [filename, url, status]
    scan_btn,           \* scan_btn.isEnabled()
    download_btns,      \* download_selected_btn / download_all_btn .isEnabled()
    events,             \* signals queued from the worker threads to the GUI thread
    scan_workers,       \* the ScanWorker threads (slot -> worker record)
    download_workers,   \* the DownloadWorker threads (slot -> worker record)
    files,              \* names of the files that exist in the download directory
    started,            \* how many scans and download batches have been started
    reentrant,          \* history: a scan request has been ignored while scanning
    web,                \* the pages the web may answer a request with
    call                \* harness of the pure helpers: [fn, args, ret]

vars == <<is_scanning, found_pdfs, results_tree, scan_btn, download_btns, events,
          scan_workers, download_workers, files, started, reentrant, web, call>>

-----------------------------------------------------------------------------
(* Bounds of the model *)

\* links on the primary page
MaxLinks == 2
\* links on a followed sub-page
MaxSubLinks == 1
\* scans started in one run of the program
MaxScans == 2
\* download batches started in one run of the program
MaxBatches == 2
\* items of a download batch drawn directly (DownloadSpec)
MaxItems == 2
\* segments of a generated URL path (FilenameSpec)
MaxSegs == 2
\* characters of a generated URL tail, anchor text or filter (FilterSpec)
MaxText == 2

-----------------------------------------------------------------------------
(* Text: what the str methods used by the program do *)

UPPER == <<"A", "B", "C", "D", "E", "F", "G", "H", "I", "J", "K", "L", "M", "N", "O", "P", "Q", "R", "S", "T", "U", "V", "W", "X", "Y", "Z">>
LOWER == <<"a", "b", "c", "d", "e", "f", "g", "h", "i", "j", "k", "l", "m", "n", "o", "p", "q", "r", "s", "t", "u", "v", "w", "x", "y", "z">>
DIGITS == {"0", "1", "2", "3", "4", "5", "6", "7", "8", "9"}

Range(s) == {s[i] : i \in 1..Len(s)}

\* str.lower() of one character
LowerChar(c) ==
    IF \E i \in 1..Len(UPPER) : UPPER[i] = c
    THEN LOWER[CHOOSE i \in 1..Len(UPPER) : UPPER[i] = c]
    ELSE c

\* str.lower()
Lower(s) == [i \in 1..Len(s) |-> LowerChar(s[i])]

\* s.endswith(t)
EndsWith(s, t) ==
    /\ Len(s) >= Len(t)
    /\ SubSeq(s, Len(s) - Len(t) + 1, Len(s)) = t

\* s.startswith(t)
StartsWith(s, t) ==
    /\ Len(s) >= Len(t)
    /\ SubSeq(s, 1, Len(t)) = t

\* t in s
Contains(s, t) ==
    \E i \in 0..(Len(s) - Len(t)) : SubSeq(s, i + 1, i + Len(t)) = t

\* s.find(c) + 1 for a character c, searching from index from (1-based); 0: absent
FindFrom(s, c, from) ==
    IF \E i \in from..Len(s) : s[i] = c
    THEN CHOOSE i \in from..Len(s) : s[i] = c /\ \A j \in from..(i - 1) : s[j] # c
    ELSE 0

Find(s, c) == FindFrom(s, c, 1)

\* s.rfind(c) + 1; 0: absent
RFind(s, c) ==
    IF \E i \in 1..Len(s) : s[i] = c
    THEN CHOOSE i \in 1..Len(s) : s[i] = c /\ \A j \in (i + 1)..Len(s) : s[j] # c
    ELSE 0

\* s.split(c)[0]
Before(s, c) == IF Find(s, c) = 0 THEN s ELSE SubSeq(s, 1, Find(s, c) - 1)

\* s.split(c, 1)[1], for s that contains c
After(s, c) == SubSeq(s, Find(s, c) + 1, Len(s))

\* s.split(c): the list of the pieces between the occurrences of c
RECURSIVE Split(_, _)
Split(s, c) ==
    IF Find(s, c) = 0 THEN <<s>>
    ELSE <<Before(s, c)>> \o Split(After(s, c), c)

\* [p for p in parts if p]
NonEmpty(parts) == SelectSeq(parts, LAMBDA p : p # <<>>)

\* \w of the re module: a letter, a digit or the underscore
IsWordChar(c) == c \in Range(UPPER) \cup Range(LOWER) \cup DIGITS \cup {"_"}

\* urllib.parse.unquote: every percent escape becomes the character it encodes
UnquoteChar(c) ==
    CASE c = "%3F" -> "?"
      [] c = "%2F" -> "/"
      [] c = "%20" -> " "
      [] OTHER -> c

Unquote(s) == [i \in 1..Len(s) |-> UnquoteChar(s[i])]

\* os.path.basename: what follows the last "/"
Basename(p) == SubSeq(p, RFind(p, "/") + 1, Len(p))

\* os.path.splitext: the extension starts at the last "." of the name, unless
\* only leading dots precede it (".pdf" has no extension)
SplitExt(name) ==
    LET dot == RFind(name, ".")
        lead == \A j \in 1..(dot - 1) : name[j] = "."
    IN  IF dot = 0 \/ lead
        THEN [base |-> name, ext |-> <<>>]
        ELSE [base |-> SubSeq(name, 1, dot - 1), ext |-> SubSeq(name, dot, Len(name))]

\* str(counter) for the counters the model reaches
Digit(n) == <<"0", "1", "2", "3", "4", "5", "6", "7", "8", "9">>[n + 1]

RECURSIVE IntStr(_)
IntStr(n) == IF n < 10 THEN <<Digit(n)>> ELSE IntStr(n \div 10) \o <<Digit(n % 10)>>

-----------------------------------------------------------------------------
(* urllib.parse *)

SCHEME_CHARS == Range(UPPER) \cup Range(LOWER) \cup DIGITS \cup {"+", "-", "."}

\* the smallest of the positive numbers of a set, 0 when there is none
MinPos(S) ==
    LET P == {x \in S : x > 0}
    IN  IF P = {} THEN 0 ELSE CHOOSE x \in P : \A y \in P : x <= y

\* urlsplit: a scheme is what precedes the first ":", when it starts with a
\* letter and holds scheme characters only
HasScheme(url, colon) ==
    /\ colon > 1
    /\ url[1] \in Range(UPPER) \cup Range(LOWER)
    /\ \A j \in 1..(colon - 1) : url[j] \in SCHEME_CHARS

\* _splitnetloc: the netloc after "//" ends before the next "/", "?" or "#"
NetlocEnd(r) ==
    LET delim == MinPos({FindFrom(r, "/", 3), FindFrom(r, "?", 3), FindFrom(r, "#", 3)})
    IN  IF delim = 0 THEN Len(r) ELSE delim - 1

\* urlparse's _splitparams: the params follow the first ";" of the last segment
ParsePath(scheme, netloc, r, semi, query, fragment) ==
    [scheme |-> scheme, netloc |-> netloc,
     path |-> IF semi = 0 THEN r ELSE SubSeq(r, 1, semi - 1),
     params |-> IF semi = 0 THEN <<>> ELSE SubSeq(r, semi + 1, Len(r)),
     query |-> query, fragment |-> fragment]

\* urlsplit: the query follows the first "?" of what precedes the fragment
ParseQuery(scheme, netloc, r, fragment) ==
    ParsePath(scheme, netloc, Before(r, "?"),
              FindFrom(Before(r, "?"), ";", RFind(Before(r, "?"), "/") + 1),
              IF Find(r, "?") = 0 THEN <<>> ELSE After(r, "?"), fragment)

\* urlsplit: the fragment follows the first "#"
ParseFragment(scheme, netloc, r) ==
    ParseQuery(scheme, netloc, Before(r, "#"), IF Find(r, "#") = 0 THEN <<>> ELSE After(r, "#"))

\* urlsplit: the netloc, when "//" follows the scheme
ParseNetloc(scheme, r) ==
    ParseFragment(scheme,
                  IF StartsWith(r, <<"/", "/">>) THEN SubSeq(r, 3, NetlocEnd(r)) ELSE <<>>,
                  IF StartsWith(r, <<"/", "/">>) THEN SubSeq(r, NetlocEnd(r) + 1, Len(r)) ELSE r)

\* urlparse(url): scheme, netloc, path, params, query and fragment
UrlParse(url) ==
    ParseNetloc(IF HasScheme(url, Find(url, ":")) THEN Lower(SubSeq(url, 1, Find(url, ":") - 1)) ELSE <<>>,
                IF HasScheme(url, Find(url, ":")) THEN SubSeq(url, Find(url, ":") + 1, Len(url)) ELSE url)

\* urljoin for a base parsed as b
JoinParsed(base, href, b) ==
    IF href[1] = "/" THEN b.scheme \o <<":", "/", "/">> \o b.netloc \o href
    ELSE IF href[1] = "#" THEN Before(base, "#") \o href
    ELSE IF href[1] = "?" THEN Before(Before(base, "#"), "?") \o href
    ELSE b.scheme \o <<":", "/", "/">> \o b.netloc
            \o (IF RFind(b.path, "/") = 0 THEN <<"/">> ELSE SubSeq(b.path, 1, RFind(b.path, "/")))
            \o href

\* urljoin(base, href) for the hrefs of the model: an absolute URL stands as it
\* is, a href that starts with "/" replaces the path of the base, a "#..." or
\* "?..." href replaces the fragment or the query, and any other href replaces the
\* last segment of the base's path
Urljoin(base, href) ==
    IF href = <<>> THEN base
    ELSE IF HasScheme(href, Find(href, ":")) THEN href
    ELSE JoinParsed(base, href, UrlParse(base))

-----------------------------------------------------------------------------
(* ScanWorker's pure helpers *)

DOT_PDF == <<".", "p", "d", "f">>
PDF == <<"p", "d", "f">>

script_pdf_domains == {
    <<"a", "s", "s", "e", "t", "s", ".", "s", "c", "r", "i", "p", "t", "s", "l", "u", "g", ".", "c", "o", "m">>,
    <<"s", "c", "r", "i", "p", "t", "s", "l", "u", "g", ".", "c", "o", "m", "/", "l", "i", "v", "e", "/", "p", "d", "f">>,
    <<"d", "a", "i", "l", "y", "s", "c", "r", "i", "p", "t", ".", "c", "o", "m">>,
    <<"i", "m", "s", "d", "b", ".", "c", "o", "m">>,
    <<"s", "c", "r", "e", "e", "n", "p", "l", "a", "y", "d", "b", ".", "c", "o", "m">>,
    <<"s", "c", "r", "i", "p", "t", "p", "d", "f", ".", "c", "o", "m">> }

\* the rules of _is_pdf_link, on the lowercased url and href and the path of the
\* lowercased url
IsPdfLower(url_lower, href_lower, path) ==
    \/ EndsWith(path, DOT_PDF)
    \/ EndsWith(href_lower, DOT_PDF)
    \/ Contains(href_lower, DOT_PDF \o <<"?">>)
    \/ Contains(href_lower, DOT_PDF \o <<"#">>)
    \/ Contains(path, <<"/", "p", "d", "f", "/">>)
    \/ Contains(path, <<"/", "p", "d", "f", "s", "/">>)
    \/ /\ \E domain \in script_pdf_domains : Contains(url_lower, domain)
       /\ (Contains(url_lower, PDF) \/ EndsWith(path, DOT_PDF))
    \/ /\ Contains(url_lower, <<"d", "o", "w", "n", "l", "o", "a", "d">>)
       /\ Contains(url_lower, PDF)

\* ScanWorker._is_pdf_link
IsPdfLink(url, href) == IsPdfLower(Lower(url), Lower(href), UrlParse(Lower(url)).path)

\* ScanWorker._matches_filter; link_text is the anchor text, lowercased by run
MatchesFilter(filter_text, url, link_text) ==
    IF filter_text = <<>> THEN TRUE
    ELSE LET combined == Lower(url) \o <<" ">> \o link_text
         IN  Contains(combined, filter_text)

\* re.sub(r'[^\w\-_.]', '_', base_name)
Sanitize(s) ==
    [i \in 1..Len(s) |-> IF IsWordChar(s[i]) \/ s[i] \in {"-", "_", "."} THEN s[i] ELSE "_"]

SCRIPT_PDF == <<"s", "c", "r", "i", "p", "t", ".", "p", "d", "f">>

\* WithPdf with a fault: the ".pdf" is not appended
WithoutPdf(cleaned) == cleaned

\* _extract_filename: if not filename.endswith('.pdf'): filename += '.pdf'
WithPdf(cleaned) == IF EndsWith(cleaned, DOT_PDF) THEN cleaned ELSE cleaned \o DOT_PDF

\* _extract_filename: the name made from the last non-empty segment of the
\* path, or the fallback name when there is none
NameFromParts(path_parts) ==
    IF path_parts # <<>>
    THEN WithPdf(Sanitize(path_parts[Len(path_parts)]))
    ELSE SCRIPT_PDF

\* _extract_filename: the basename stands when it ends in ".pdf"
NameFromPath(path, filename) ==
    IF filename = <<>> \/ ~EndsWith(filename, DOT_PDF)
    THEN NameFromParts(NonEmpty(Split(path, "/")))
    ELSE filename

\* _extract_filename: the basename of the unquoted path, cut at a "?"
BaseOfPath(path) ==
    NameFromPath(path, IF Find(Basename(path), "?") # 0
                       THEN Before(Basename(path), "?") ELSE Basename(path))

\* ScanWorker._extract_filename
ExtractFilename(url) == BaseOfPath(Unquote(UrlParse(url).path))

script_keywords == {
    <<"s", "c", "r", "i", "p", "t">>,
    <<"s", "c", "r", "e", "e", "n", "p", "l", "a", "y">>,
    <<"t", "e", "l", "e", "p", "l", "a", "y">>,
    <<"p", "i", "l", "o", "t">>,
    <<"e", "p", "i", "s", "o", "d", "e">>,
    <<"t", "r", "a", "n", "s", "c", "r", "i", "p", "t">>,
    <<"d", "r", "a", "f", "t">>,
    <<"s", "h", "o", "o", "t", "i", "n", "g">>,
    <<"f", "i", "n", "a", "l">> }

\* the literal prefixes of script_page_patterns; each is followed by [\w-]+
script_page_prefixes == {
    <<"/", "s", "c", "r", "i", "p", "t", "/">>,
    <<"/", "s", "c", "r", "i", "p", "t", "s", "/">>,
    <<"/", "s", "c", "r", "e", "e", "n", "p", "l", "a", "y", "/">>,
    <<"/", "s", "c", "r", "e", "e", "n", "p", "l", "a", "y", "s", "/">> }

\* re.search(prefix + r'[\w-]+', href)
SearchPagePattern(prefix, href) ==
    \E i \in 1..Len(href) :
        /\ i + Len(prefix) <= Len(href)
        /\ SubSeq(href, i, i + Len(prefix) - 1) = prefix
        /\ (IsWordChar(href[i + Len(prefix)]) \/ href[i + Len(prefix)] = "-")

\* the follow decision of ScanWorker.run: is_script_link or is_script_page
IsFollowCandidate(link_text, href) ==
    LET combined == link_text \o <<" ">> \o Lower(href)
    IN  \/ \E kw \in script_keywords : Contains(combined, kw)
        \/ \E prefix \in script_page_prefixes : SearchPagePattern(prefix, href)

-----------------------------------------------------------------------------
(* DownloadWorker *)

DownloadSlots == 1..MaxBatches

\* a DownloadWorker that does not exist (yet, or any more)
NoDownload ==
    [pc |-> "idle", items |-> <<>>, i |-> 0, success_count |-> 0, filepath |-> <<>>,
     status |-> <<>>, saved |-> <<>>, completes |-> 0, dir0 |-> {}]

\* DownloadWorker.__init__ and start(): run() is about to begin.  status, saved,
\* completes and dir0 are history: the last status emitted for each item, the
\* path each item was saved under, the download_complete signals emitted, and the
\* files that were in the directory when the batch began
NewDownload(items) ==
    [pc |-> "makedirs", items |-> items, i |-> 1, success_count |-> 0, filepath |-> <<>>,
     status |-> [k \in 1..Len(items) |-> "Ready"],
     saved |-> [k \in 1..Len(items) |-> <<>>],
     completes |-> 0, dir0 |-> files]

ActiveDownloads == {w \in DownloadSlots : download_workers[w].pc \in {"makedirs", "get", "write"}}

StatusEvent(item, status) ==
    [sig |-> "status_update", row |-> item.row, status |-> status, url |-> item.url]

CompleteEvent(w, d) ==
    [sig |-> "download_complete", worker |-> w, success_count |-> d.success_count,
     total_count |-> Len(d.items)]

\* the end of one pass of the for loop of run: on to the next item, or, after the
\* last one, download_complete.emit(success_count, len(self.items))
NextItem(w, d, evs) ==
    IF d.i < Len(d.items)
    THEN /\ download_workers' = [download_workers EXCEPT ![w] = [d EXCEPT !.pc = "get", !.i = d.i + 1]]
         /\ events' = evs
    ELSE /\ download_workers' = [download_workers EXCEPT ![w] =
                [d EXCEPT !.pc = "done", !.completes = d.completes + 1]]
         /\ events' = Append(evs, CompleteEvent(w, d))

\* the candidate f"{base}_{counter}{ext}"
Candidate(se, counter) == se.base \o <<"_">> \o IntStr(counter) \o se.ext

\* the while loop of run: the first candidate that does not exist
RECURSIVE Probe(_, _, _)
Probe(dir, se, counter) ==
    IF Candidate(se, counter) \in dir THEN Probe(dir, se, counter + 1)
    ELSE Candidate(se, counter)

\* the path run saves an item under: the filename, or, when that exists, the
\* first free candidate
ChoosePath(dir, filename) ==
    IF filename \in dir THEN Probe(dir, SplitExt(filename), 1) ELSE filename

\* os.makedirs(self.download_dir, exist_ok=True): it returns, or it raises and
\* run ends there, outside any try
DlMakedirs(w) ==
    LET d == download_workers[w]
    IN  /\ d.pc = "makedirs"
        /\ \/ /\ d.items # <<>>
              /\ download_workers' = [download_workers EXCEPT ![w] = [d EXCEPT !.pc = "get"]]
              /\ events' = events
           \/ /\ d.items = <<>>
              /\ download_workers' = [download_workers EXCEPT ![w] =
                     [d EXCEPT !.pc = "done", !.completes = d.completes + 1]]
              /\ events' = Append(events, CompleteEvent(w, d))
           \/ /\ download_workers' = [download_workers EXCEPT ![w] = [d EXCEPT !.pc = "crashed"]]
              /\ events' = events
        /\ UNCHANGED <<is_scanning, found_pdfs, results_tree, scan_btn, download_btns,
                       scan_workers, files, started, reentrant, web, call>>

\* DlGet with a fault: a failed request ends the batch (abort on first failure)
DlGetAbort(w) ==
    LET d == download_workers[w]
        item == d.items[d.i]
        evs == Append(events, StatusEvent(item, "Downloading..."))
    IN  /\ d.pc = "get"
        /\ \/ /\ download_workers' = [download_workers EXCEPT ![w] =
                     [d EXCEPT !.pc = "write", !.status[d.i] = "Downloading...",
                               !.filepath = ChoosePath(files, item.filename)]]
              /\ events' = evs
           \/ LET f == [d EXCEPT !.status[d.i] = "Failed", !.i = Len(d.items)]
              IN  NextItem(w, f, Append(evs, StatusEvent(item, "Failed")))
        /\ UNCHANGED <<is_scanning, found_pdfs, results_tree, scan_btn, download_btns,
                       scan_workers, files, started, reentrant, web, call>>

\* the first half of one pass of the loop: status "Downloading...", the request
\* (session.get and raise_for_status), and the choice of the path to save under.
\* A request that raises marks the item "Failed" and the loop goes on
DlGet(w) ==
    LET d == download_workers[w]
        item == d.items[d.i]
        evs == Append(events, StatusEvent(item, "Downloading..."))
    IN  /\ d.pc = "get"
        /\ \/ /\ download_workers' = [download_workers EXCEPT ![w] =
                     [d EXCEPT !.pc = "write", !.status[d.i] = "Downloading...",
                               !.filepath = ChoosePath(files, item.filename)]]
              /\ events' = evs
           \/ LET f == [d EXCEPT !.status[d.i] = "Failed"]
              IN  NextItem(w, f, Append(evs, StatusEvent(item, "Failed")))
        /\ UNCHANGED <<is_scanning, found_pdfs, results_tree, scan_btn, download_btns,
                       scan_workers, files, started, reentrant, web, call>>

\* the second half of one pass: open(filepath, 'wb') and the writes of the
\* chunks, then status "Downloaded" and success_count += 1.  open may raise (no
\* file is made), a write or a read of the stream may raise (the file is left
\* behind): either way the item is "Failed" and the loop goes on
DlWrite(w) ==
    LET d == download_workers[w]
        item == d.items[d.i]
    IN  /\ d.pc = "write"
        /\ \/ /\ files' = files
              /\ NextItem(w, [d EXCEPT !.status[d.i] = "Failed"],
                          Append(events, StatusEvent(item, "Failed")))
           \/ /\ files' = files \cup {d.filepath}
              /\ NextItem(w, [d EXCEPT !.status[d.i] = "Failed"],
                          Append(events, StatusEvent(item, "Failed")))
           \/ /\ files' = files \cup {d.filepath}
              /\ NextItem(w, [d EXCEPT !.status[d.i] = "Downloaded",
                                       !.saved[d.i] = d.filepath,
                                       !.success_count = d.success_count + 1],
                          Append(events, StatusEvent(item, "Downloaded")))
        /\ UNCHANGED <<is_scanning, found_pdfs, results_tree, scan_btn, download_btns,
                       scan_workers, started, reentrant, web, call>>

-----------------------------------------------------------------------------
(* The web, as the model's scans see it *)

\* the links a fetched page may hold: a PDF link whose anchor text names it, a
\* second PDF link that derives the same filename, a link to a script page, and
\* a link that is neither
LinkA == [href |-> <<"/", "f", "/", "d", "r", "a", "f", "t", ".", "p", "d", "f">>, text |-> <<"D", "r", "a", "f", "t">>]
LinkB == [href |-> <<"/", "g", "/", "d", "r", "a", "f", "t", ".", "p", "d", "f">>, text |-> <<"b">>]
LinkS == [href |-> <<"/", "s", "c", "r", "i", "p", "t", "/", "x">>, text |-> <<"O", "t", "h", "e", "r">>]
LinkN == [href |-> <<"/", "a", "b", "o", "u", "t">>, text |-> <<"A", "b", "o", "u", "t">>]

\* the links of a page at the positions of I, in the order of the page
RECURSIVE Pick(_, _)
Pick(page, I) ==
    IF page = <<>> THEN <<>>
    ELSE IF Len(page) \in I
    THEN Append(Pick(SubSeq(page, 1, Len(page) - 1), I), page[Len(page)])
    ELSE Pick(SubSeq(page, 1, Len(page) - 1), I)

\* soup.find_all('a', href=True) of a page: at most n of the links of a long
\* page, in the order of that page
PagesOf(long, n) ==
    {Pick(long, I) : I \in {I \in SUBSET (1..Len(long)) : Cardinality(I) <= n}}

\* a site whose pages hold at most one link, a PDF link, and nothing to follow
SmallWeb == [primary |-> {<<>>, <<LinkA>>, <<LinkB>>}, sub |-> {}]

\* a site whose primary page links to a PDF, to a script page (perhaps twice)
\* and elsewhere, and whose script pages link to PDFs and to further script pages
ScriptWeb ==
    [primary |-> PagesOf(<<LinkS, LinkA, LinkS, LinkN>>, MaxLinks),
     sub |-> PagesOf(<<LinkA, LinkB, LinkS>>, MaxSubLinks)]

\* what the user may have typed into url_entry, and the URL it stands for
UrlEntries == {
    <<"h", "t", "t", "p", "s", ":", "/", "/">>,
    <<"h", "/", "m", "o", "v", "i", "e">>,
    <<"h", "t", "t", "p", "s", ":", "/", "/", "h", "/", "m", "o", "v", "i", "e">> }

\* what the user may have typed into filter_entry
FilterEntries == {<<>>, <<" ", "G">>}

\* str.strip() for the whitespace of the model, the space
RECURSIVE Strip(_)
Strip(s) ==
    IF s = <<>> THEN s
    ELSE IF Head(s) = " " THEN Strip(Tail(s))
    ELSE IF s[Len(s)] = " " THEN Strip(SubSeq(s, 1, Len(s) - 1))
    ELSE s

\* PLAYWRIGHT_AVAILABLE: the import of playwright succeeded.  With it both
\* ways of fetching the primary page can be chosen; without it only the plain one
PLAYWRIGHT_AVAILABLE == TRUE

-----------------------------------------------------------------------------
(* ScanWorker *)

ScanSlots == 1..MaxScans

\* a ScanWorker that does not exist (yet, or any more)
NoScan ==
    [pc |-> "idle", url |-> <<>>, filter_text |-> <<>>, follow_links |-> FALSE,
     render_js |-> FALSE, all_links |-> <<>>, k |-> 0, found_pdfs |-> {},
     fetched |-> <<>>, status |-> <<>>, raised |-> {}, seen |-> <<>>, emitted |-> <<>>]

\* ScanWorker.__init__ and start(): run() is about to begin.  fetched, status,
\* raised, seen and emitted are history: the URLs requested, in order; the HTTP
\* status each request was answered with (0: none, the request raised); the
\* requests (by position in fetched) that raised; the pages that were parsed
\* (the position of the request in fetched, and the links of its answer); and the
\* scan_complete / scan_error signals emitted
NewScan(url, filter_text, follow_links, render_js) ==
    [pc |-> "fetch", url |-> url, filter_text |-> filter_text, follow_links |-> follow_links,
     render_js |-> render_js, all_links |-> <<>>, k |-> 1, found_pdfs |-> {},
     fetched |-> <<>>, status |-> <<>>, raised |-> {}, seen |-> <<>>, emitted |-> <<>>]

ActiveScans == {s \in ScanSlots : scan_workers[s].pc \in {"fetch", "links"}}

\* the links of a page resolved against the page's URL
Resolved(base, links) ==
    {[url |-> Urljoin(base, links[j].href), href |-> links[j].href, text |-> Lower(links[j].text)]
        : j \in {j \in 1..Len(links) : links[j].href # <<>>}}

\* the Found Scripts one page adds: its links that are PDF links and pass the filter
PdfsOf(filter_text, base, links) ==
    {<<ExtractFilename(l.url), l.url>> :
        l \in {l \in Resolved(base, links) :
                  IsPdfLink(l.url, l.href) /\ MatchesFilter(filter_text, l.url, l.text)}}

\* list(found_pdfs): the elements of the set in any order
ListsOf(S) ==
    {q \in [1..Cardinality(S) -> S] : \A i, j \in 1..Cardinality(S) : i # j => q[i] # q[j]}

\* the end of one pass of the loop over all_links: on to the next link, or, after
\* the last one, scan_complete.emit(list(found_pdfs))
NextLink(s, c) ==
    IF c.k <= Len(c.all_links)
    THEN /\ scan_workers' = [scan_workers EXCEPT ![s] = c]
         /\ events' = events
    ELSE \E pdfs \in ListsOf(c.found_pdfs) :
            /\ scan_workers' = [scan_workers EXCEPT ![s] =
                   [c EXCEPT !.pc = "finished", !.emitted = Append(c.emitted, "scan_complete")]]
            /\ events' = Append(events, [sig |-> "scan_complete", worker |-> s, pdfs |-> pdfs])

\* the outer except of run: scan_error.emit(str(e))
ScanFails(s, c) ==
    /\ scan_workers' = [scan_workers EXCEPT ![s] =
           [c EXCEPT !.pc = "finished", !.emitted = Append(c.emitted, "scan_error")]]
    /\ events' = Append(events, [sig |-> "scan_error", worker |-> s])

\* the fetch of the main page in run.  Plain: session.get raises, or answers with
\* a status and a body, and raise_for_status raises unless the status is 2xx.
\* Rendered: page.goto raises, or the page is loaded whatever its status, and
\* its content is parsed
ScanFetch(s) ==
    LET c == scan_workers[s]
        asked == [c EXCEPT !.fetched = Append(c.fetched, c.url)]
    IN  /\ c.pc = "fetch"
        /\ \/ ScanFails(s, [asked EXCEPT !.status = Append(c.status, 0),
                                         !.raised = c.raised \cup {Len(asked.fetched)}])
           \/ \E code \in {200, 404}, page \in web.primary :
                LET got == [asked EXCEPT !.status = Append(c.status, code)]
                IN  IF (c.render_js /\ PLAYWRIGHT_AVAILABLE) \/ code = 200
                    THEN NextLink(s, [got EXCEPT !.pc = "links", !.all_links = page, !.k = 1,
                                                 !.seen = <<[at |-> 1, links |-> page]>>])
                    ELSE ScanFails(s, got)
        /\ UNCHANGED <<is_scanning, found_pdfs, results_tree, scan_btn, download_btns,
                       download_workers, files, started, reentrant, web, call>>

\* OneLink with a fault: a sub-page whose fetch raises ends the scan with
\* scan_error
OneLinkFatal(s, c, link, full_url) ==
    IF link.href = <<>> THEN NextLink(s, [c EXCEPT !.k = c.k + 1])
    ELSE IF IsPdfLink(full_url, link.href)
    THEN NextLink(s, [c EXCEPT !.k = c.k + 1,
                               !.found_pdfs = c.found_pdfs \cup PdfsOf(c.filter_text, c.url, <<link>>)])
    ELSE IF c.follow_links /\ IsFollowCandidate(Lower(link.text), link.href)
    THEN \/ ScanFails(s, [c EXCEPT !.k = c.k + 1,
                                  !.fetched = Append(c.fetched, full_url),
                                  !.status = Append(c.status, 0),
                                  !.raised = c.raised \cup {Len(c.fetched) + 1}])
         \/ \E code \in {200, 404}, page \in web.sub :
               NextLink(s, [c EXCEPT
                   !.k = c.k + 1,
                   !.fetched = Append(c.fetched, full_url),
                   !.status = Append(c.status, code),
                   !.seen = Append(c.seen, [at |-> Len(c.fetched) + 1, links |-> page]),
                   !.found_pdfs = c.found_pdfs \cup PdfsOf(c.filter_text, full_url, page)])
    ELSE NextLink(s, [c EXCEPT !.k = c.k + 1])

\* OneLink with a fault: follow candidates are followed whatever follow_links says
OneLinkAlwaysFollow(s, c, link, full_url) ==
    IF link.href = <<>> THEN NextLink(s, [c EXCEPT !.k = c.k + 1])
    ELSE IF IsPdfLink(full_url, link.href)
    THEN NextLink(s, [c EXCEPT !.k = c.k + 1,
                               !.found_pdfs = c.found_pdfs \cup PdfsOf(c.filter_text, c.url, <<link>>)])
    ELSE IF IsFollowCandidate(Lower(link.text), link.href)
    THEN \/ NextLink(s, [c EXCEPT !.k = c.k + 1,
                                  !.fetched = Append(c.fetched, full_url),
                                  !.status = Append(c.status, 0),
                                  !.raised = c.raised \cup {Len(c.fetched) + 1}])
         \/ \E code \in {200, 404}, page \in web.sub :
               NextLink(s, [c EXCEPT
                   !.k = c.k + 1,
                   !.fetched = Append(c.fetched, full_url),
                   !.status = Append(c.status, code),
                   !.seen = Append(c.seen, [at |-> Len(c.fetched) + 1, links |-> page]),
                   !.found_pdfs = c.found_pdfs \cup PdfsOf(c.filter_text, full_url, page)])
    ELSE NextLink(s, [c EXCEPT !.k = c.k + 1])

\* one pass of the loop over all_links in run, for the link resolved to
\* full_url: a link with an empty href is skipped; a PDF link that passes the
\* filter is added; any other link is followed when follow_links is set and it is
\* a follow candidate: session.get raises (logged, the loop goes on) or answers
\* with a status and a body, and with no raise_for_status the body is parsed
\* whatever the status, its PDF links added
OneLink(s, c, link, full_url) ==
    IF link.href = <<>> THEN NextLink(s, [c EXCEPT !.k = c.k + 1])
    ELSE IF IsPdfLink(full_url, link.href)
    THEN NextLink(s, [c EXCEPT !.k = c.k + 1,
                               !.found_pdfs = c.found_pdfs \cup PdfsOf(c.filter_text, c.url, <<link>>)])
    ELSE IF c.follow_links /\ IsFollowCandidate(Lower(link.text), link.href)
    THEN \/ NextLink(s, [c EXCEPT !.k = c.k + 1,
                                  !.fetched = Append(c.fetched, full_url),
                                  !.status = Append(c.status, 0),
                                  !.raised = c.raised \cup {Len(c.fetched) + 1}])
         \/ \E code \in {200, 404}, page \in web.sub :
               NextLink(s, [c EXCEPT
                   !.k = c.k + 1,
                   !.fetched = Append(c.fetched, full_url),
                   !.status = Append(c.status, code),
                   !.seen = Append(c.seen, [at |-> Len(c.fetched) + 1, links |-> page]),
                   !.found_pdfs = c.found_pdfs \cup PdfsOf(c.filter_text, full_url, page)])
    ELSE NextLink(s, [c EXCEPT !.k = c.k + 1])

\* the loop over all_links in run, one link at a step
ScanLink(s) ==
    /\ scan_workers[s].pc = "links"
    /\ OneLink(s, scan_workers[s], scan_workers[s].all_links[scan_workers[s].k],
               Urljoin(scan_workers[s].url,
                       scan_workers[s].all_links[scan_workers[s].k].href))
    /\ UNCHANGED <<is_scanning, found_pdfs, results_tree, scan_btn, download_btns,
                   download_workers, files, started, reentrant, web, call>>

-----------------------------------------------------------------------------
(* ScriptFinder: the handlers of the window, each run on the GUI thread *)

\* the lowest slot that holds no worker
FreeSlot(workers, slots) ==
    CHOOSE x \in slots : workers[x].pc = "idle" /\ \A y \in slots : workers[y].pc = "idle" => x <= y

\* ScriptFinder._start_download
StartDownload(items) ==
    /\ started.batches < MaxBatches
    /\ download_workers' = [download_workers EXCEPT
           ![FreeSlot(download_workers, DownloadSlots)] = NewDownload(items)]
    /\ started' = [started EXCEPT !.batches = started.batches + 1]

\* the items _download_all and _download_selected build from rows of the tree
ItemsOf(tree, rows) ==
    [j \in 1..Len(rows) |->
        [row |-> rows[j] - 1, filename |-> tree[rows[j]].filename, url |-> tree[rows[j]].url]]

\* the elements of a set of row numbers in ascending order
RECURSIVE Ascending(_)
Ascending(S) ==
    IF S = {} THEN <<>>
    ELSE LET m == CHOOSE x \in S : \A y \in S : x <= y
         IN  <<m>> \o Ascending(S \ {m})

\* the body of ScriptFinder._clear_results
ClearedResults ==
    /\ results_tree' = <<>>
    /\ found_pdfs' = <<>>
    /\ download_btns' = FALSE

\* ScriptFinder._clear_results, the "Clear Results" button
ClearResults ==
    /\ ClearedResults
    /\ UNCHANGED <<is_scanning, scan_btn, events, scan_workers, download_workers, files,
                   started, reentrant, web, call>>

\* StartScan with a fault: the is_scanning guard is left out
StartScanNoGuard ==
    /\ started.scans < MaxScans
    /\ \E pressed \in {"button", "return"}, text \in UrlEntries, entry \in FilterEntries,
          follow \in BOOLEAN, render \in BOOLEAN :
          LET url == IF StartsWith(text, <<"h", "t", "t", "p", ":", "/", "/">>)
                        \/ StartsWith(text, <<"h", "t", "t", "p", "s", ":", "/", "/">>)
                     THEN text ELSE <<"h", "t", "t", "p", "s", ":", "/", "/">> \o text
          IN  /\ pressed = "button" => scan_btn
              /\ text # <<"h", "t", "t", "p", "s", ":", "/", "/">>
              /\ ClearedResults
              /\ is_scanning' = TRUE
              /\ scan_btn' = FALSE
              /\ scan_workers' = [scan_workers EXCEPT ![FreeSlot(scan_workers, ScanSlots)] =
                     NewScan(url, Lower(Strip(entry)), follow, render /\ PLAYWRIGHT_AVAILABLE)]
              /\ started' = [started EXCEPT !.scans = started.scans + 1]
              /\ UNCHANGED <<events, download_workers, files, reentrant, web, call>>

\* ScriptFinder._start_scan, on a click of scan_btn (when it is enabled) or on
\* Return in url_entry: ignored while is_scanning, refused for an empty URL,
\* else the results are cleared and a ScanWorker is started
StartScan ==
    /\ started.scans < MaxScans
    /\ \E pressed \in {"button", "return"} :
          /\ pressed = "button" => scan_btn
          /\ IF is_scanning
             THEN /\ reentrant' = TRUE
                  /\ UNCHANGED <<is_scanning, found_pdfs, results_tree, scan_btn,
                                 download_btns, events, scan_workers, download_workers,
                                 files, started, web, call>>
             ELSE \E text \in UrlEntries, entry \in FilterEntries,
                     follow \in BOOLEAN, render \in BOOLEAN :
                     IF Strip(text) = <<>> \/ Strip(text) = <<"h", "t", "t", "p", "s", ":", "/", "/">>
                     THEN UNCHANGED vars
                     ELSE /\ ClearedResults
                          /\ is_scanning' = TRUE
                          /\ scan_btn' = FALSE
                          /\ scan_workers' = [scan_workers EXCEPT ![FreeSlot(scan_workers, ScanSlots)] =
                                 NewScan(IF StartsWith(text, <<"h", "t", "t", "p", ":", "/", "/">>)
                                            \/ StartsWith(text, <<"h", "t", "t", "p", "s", ":", "/", "/">>)
                                         THEN text
                                         ELSE <<"h", "t", "t", "p", "s", ":", "/", "/">> \o text,
                                         Lower(Strip(entry)), follow, render /\ PLAYWRIGHT_AVAILABLE)]
                          /\ started' = [started EXCEPT !.scans = started.scans + 1]
                          /\ UNCHANGED <<events, download_workers, files, reentrant, web, call>>

\* ScriptFinder._scan_complete, the handler of scan_complete: the rows are added
\* and, with auto_download_check set, _download_all starts a download of them all
ScanComplete ==
    /\ events # <<>>
    /\ Head(events).sig = "scan_complete"
    /\ LET pdfs == Head(events).pdfs
           rows == [j \in 1..Len(pdfs) |->
                       [filename |-> pdfs[j][1], url |-> pdfs[j][2], status |-> "Ready"]]
           tree == results_tree \o rows
       IN  /\ is_scanning' = FALSE
           /\ scan_btn' = TRUE
           /\ found_pdfs' = pdfs
           /\ results_tree' = tree
           /\ download_btns' = (IF pdfs # <<>> THEN TRUE ELSE download_btns)
           /\ \E auto \in BOOLEAN :
                 IF pdfs # <<>> /\ auto /\ tree # <<>>
                 THEN StartDownload(ItemsOf(tree, [j \in 1..Len(tree) |-> j]))
                 ELSE UNCHANGED <<download_workers, started>>
    /\ events' = Tail(events)
    /\ scan_workers' = [scan_workers EXCEPT ![Head(events).worker] = NoScan]
    /\ reentrant' = FALSE
    /\ UNCHANGED <<files, web, call>>

\* ScriptFinder._scan_error, the handler of scan_error
ScanError ==
    /\ events # <<>>
    /\ Head(events).sig = "scan_error"
    /\ is_scanning' = FALSE
    /\ scan_btn' = TRUE
    /\ events' = Tail(events)
    /\ scan_workers' = [scan_workers EXCEPT ![Head(events).worker] = NoScan]
    /\ reentrant' = FALSE
    /\ UNCHANGED <<found_pdfs, results_tree, download_btns, download_workers, files,
                   started, web, call>>

\* ScriptFinder._download_selected, the "Download Selected" button: the selected
\* rows, none of which is a warning and nothing more
DownloadSelected ==
    /\ download_btns
    /\ \E selected \in SUBSET (1..Len(results_tree)) :
          IF selected = {}
          THEN UNCHANGED <<download_workers, started>>
          ELSE StartDownload(ItemsOf(results_tree, Ascending(selected)))
    /\ UNCHANGED <<is_scanning, found_pdfs, results_tree, scan_btn, download_btns, events,
                   scan_workers, files, reentrant, web, call>>

\* ScriptFinder._download_all, the "Download All" button
DownloadAll ==
    /\ download_btns
    /\ IF results_tree # <<>>
       THEN StartDownload(ItemsOf(results_tree, [j \in 1..Len(results_tree) |-> j]))
       ELSE UNCHANGED <<download_workers, started>>
    /\ UNCHANGED <<is_scanning, found_pdfs, results_tree, scan_btn, download_btns, events,
                   scan_workers, files, reentrant, web, call>>

\* ScriptFinder._update_status, the handler of status_update: the row at
\* row_index, if there is one, shows the status
UpdateStatus ==
    /\ events # <<>>
    /\ Head(events).sig = "status_update"
    /\ LET e == Head(events)
       IN  results_tree' =
               IF e.row + 1 \in 1..Len(results_tree)
               THEN [results_tree EXCEPT ![e.row + 1].status = e.status]
               ELSE results_tree
    /\ events' = Tail(events)
    /\ UNCHANGED <<is_scanning, found_pdfs, scan_btn, download_btns, scan_workers,
                   download_workers, files, started, reentrant, web, call>>

\* ScriptFinder._download_complete, the handler of download_complete: a log line
\* and a message box; the worker that sent it has ended
DownloadComplete ==
    /\ events # <<>>
    /\ Head(events).sig = "download_complete"
    /\ events' = Tail(events)
    /\ download_workers' = [download_workers EXCEPT ![Head(events).worker] = NoDownload]
    /\ UNCHANGED <<is_scanning, found_pdfs, results_tree, scan_btn, download_btns,
                   scan_workers, files, started, reentrant, web, call>>

-----------------------------------------------------------------------------
(* The program: the window, its workers, and the directory *)

\* ScriptFinder.__init__, with the download directory empty
Init ==
    /\ is_scanning = FALSE
    /\ found_pdfs = <<>>
    /\ results_tree = <<>>
    /\ scan_btn = TRUE
    /\ download_btns = FALSE
    /\ events = <<>>
    /\ scan_workers = [s \in ScanSlots |-> NoScan]
    /\ download_workers = [w \in DownloadSlots |-> NoDownload]
    /\ files = {}
    /\ started = [scans |-> 0, batches |-> 0]
    /\ reentrant = FALSE
    /\ web = SmallWeb
    /\ call = [fn |-> "none"]

Next ==
    \/ StartScan
    \/ ClearResults
    \/ DownloadSelected
    \/ DownloadAll
    \/ ScanComplete
    \/ ScanError
    \/ UpdateStatus
    \/ DownloadComplete
    \/ \E s \in ScanSlots : ScanFetch(s)
    \/ \E s \in ScanSlots : ScanLink(s)
    \/ \E w \in DownloadSlots : DlMakedirs(w)
    \/ \E w \in DownloadSlots : DlGet(w)
    \/ \E w \in DownloadSlots : DlWrite(w)

Spec == Init /\ [][Next]_vars

-----------------------------------------------------------------------------
(* The scan pipeline alone: the runs of the program in which no download is
   started, over a site with script pages to follow *)

ScanInit ==
    /\ is_scanning = FALSE
    /\ found_pdfs = <<>>
    /\ results_tree = <<>>
    /\ scan_btn = TRUE
    /\ download_btns = FALSE
    /\ events = <<>>
    /\ scan_workers = [s \in ScanSlots |-> NoScan]
    /\ download_workers = [w \in DownloadSlots |-> NoDownload]
    /\ files = {}
    /\ started = [scans |-> 0, batches |-> MaxBatches]
    /\ reentrant = FALSE
    /\ web = ScriptWeb
    /\ call = [fn |-> "none"]

ScanNext ==
    \/ StartScan
    \/ ClearResults
    \/ ScanComplete
    \/ ScanError
    \/ \E s \in ScanSlots : ScanFetch(s)
    \/ \E s \in ScanSlots : ScanLink(s)

ScanSpec == ScanInit /\ [][ScanNext]_vars

-----------------------------------------------------------------------------
(* DownloadWorker.run alone: one batch over a directory that may hold files *)

\* the URLs of the items: two that derive "draft.pdf", two that derive ".pdf"
DownloadUrls == {
    <<"h", "t", "t", "p", "s", ":", "/", "/", "h", "/", "f", "/", "d", "r", "a", "f", "t", ".", "p", "d", "f">>,
    <<"h", "t", "t", "p", "s", ":", "/", "/", "h", "/", "g", "/", "d", "r", "a", "f", "t", ".", "p", "d", "f">>,
    <<"h", "t", "t", "p", "s", ":", "/", "/", "h", "/", "f", "/", ".", "p", "d", "f">>,
    <<"h", "t", "t", "p", "s", ":", "/", "/", "h", "/", "g", "/", ".", "p", "d", "f">> }

\* the files the directory may hold when the batch begins
OldFiles == {
    <<"d", "r", "a", "f", "t", ".", "p", "d", "f">>,
    <<"d", "r", "a", "f", "t", "_", "1", ".", "p", "d", "f">>,
    <<".", "p", "d", "f">> }

\* the batches of at most n items (_download_all and _download_selected start
\* none that is empty): rows of the tree, each a Found Script with the filename
\* its URL derives, no URL twice
BatchesUpTo(n) ==
    {[j \in 1..Len(q) |-> [row |-> j - 1, filename |-> ExtractFilename(q[j]), url |-> q[j]]] :
        q \in {q \in UNION {[1..m -> DownloadUrls] : m \in 1..n} :
                  \A i, j \in 1..Len(q) : i # j => q[i] # q[j]}}

DownloadInit ==
    /\ is_scanning = FALSE
    /\ found_pdfs = <<>>
    /\ results_tree = <<>>
    /\ scan_btn = TRUE
    /\ download_btns = FALSE
    /\ events = <<>>
    /\ scan_workers = [s \in ScanSlots |-> NoScan]
    /\ files \in SUBSET OldFiles
    /\ \E items \in BatchesUpTo(MaxItems) :
          download_workers = [w \in DownloadSlots |->
                                 IF w = 1 THEN NewDownload(items) ELSE NoDownload]
    /\ started = [scans |-> MaxScans, batches |-> MaxBatches]
    /\ reentrant = FALSE
    /\ web = SmallWeb
    /\ call = [fn |-> "none"]

DownloadNext ==
    \/ \E w \in DownloadSlots : DlMakedirs(w)
    \/ \E w \in DownloadSlots : DlGet(w)
    \/ \E w \in DownloadSlots : DlWrite(w)

DownloadSpec == DownloadInit /\ [][DownloadNext]_vars

-----------------------------------------------------------------------------
(* The pure helpers alone, each applied to arguments drawn from bounded sets *)

\* the sequences of at most n elements of S
SeqsUpTo(S, n) == UNION {[1..m -> S] : m \in 0..n}

\* a PDF link is https://h/pdf/ followed by some characters; "B" and the
\* space stand for what lower() and the join of URL and text act on
FilterChars == {"a", "B", " "}

FilterInit ==
    /\ is_scanning = FALSE
    /\ found_pdfs = <<>>
    /\ results_tree = <<>>
    /\ scan_btn = TRUE
    /\ download_btns = FALSE
    /\ events = <<>>
    /\ scan_workers = [s \in ScanSlots |-> NoScan]
    /\ download_workers = [w \in DownloadSlots |-> NoDownload]
    /\ files = {}
    /\ started = [scans |-> MaxScans, batches |-> MaxBatches]
    /\ reentrant = FALSE
    /\ web = SmallWeb
    /\ \E tail \in SeqsUpTo(FilterChars, MaxText), text \in SeqsUpTo(FilterChars, MaxText),
          entry \in SeqsUpTo(FilterChars, MaxText + 1) :
          call = [fn |-> "matches_filter", entry |-> entry,
                  url |-> <<"h", "t", "t", "p", "s", ":", "/", "/", "h", "/", "p", "d", "f", "/">> \o tail,
                  text |-> text, returned |-> FALSE, ret |-> FALSE]

\* _start_scan makes filter_text of the filter entry, run lowercases the anchor
\* text, and _matches_filter decides
MatchesFilterCall ==
    /\ call.fn = "matches_filter"
    /\ ~call.returned
    /\ call' = [call EXCEPT !.returned = TRUE,
                            !.ret = MatchesFilter(Lower(Strip(call.entry)), call.url, Lower(call.text))]
    /\ UNCHANGED <<is_scanning, found_pdfs, results_tree, scan_btn, download_btns, events,
                   scan_workers, download_workers, files, started, reentrant, web>>

FilterSpec == FilterInit /\ [][MatchesFilterCall]_vars

\* the segments of a generated path: at most one character (plain, a percent
\* escape, a ";" or a "."), then ".pdf", ".PDF" or nothing, then an escaped "?"
\* or nothing
PathSegments ==
    {pre \o ext \o post :
        pre \in {<<>>, <<"a">>, <<"%3F">>, <<"%2F">>, <<"%20">>, <<";">>, <<".">>},
        ext \in {<<>>, <<".", "p", "d", "f">>, <<".", "P", "D", "F">>},
        post \in {<<>>, <<"%3F", "a">>}}

\* "/" before each segment of a sequence of segments
RECURSIVE JoinPath(_)
JoinPath(segs) == IF segs = <<>> THEN <<>> ELSE <<"/">> \o Head(segs) \o JoinPath(Tail(segs))

\* what may follow the path: nothing, a query, a fragment
UrlTails == {<<>>, <<"?", "a", ".", "p", "d", "f">>, <<"#", "a">>}

FilenameInit ==
    /\ is_scanning = FALSE
    /\ found_pdfs = <<>>
    /\ results_tree = <<>>
    /\ scan_btn = TRUE
    /\ download_btns = FALSE
    /\ events = <<>>
    /\ scan_workers = [s \in ScanSlots |-> NoScan]
    /\ download_workers = [w \in DownloadSlots |-> NoDownload]
    /\ files = {}
    /\ started = [scans |-> MaxScans, batches |-> MaxBatches]
    /\ reentrant = FALSE
    /\ web = SmallWeb
    /\ \E segs \in SeqsUpTo(PathSegments, MaxSegs), tail \in UrlTails :
          call = [fn |-> "extract_filename",
                  url |-> <<"h", "t", "t", "p", "s", ":", "/", "/", "h">> \o JoinPath(segs) \o tail,
                  returned |-> FALSE, ret |-> <<>>]

ExtractFilenameCall ==
    /\ call.fn = "extract_filename"
    /\ ~call.returned
    /\ call' = [call EXCEPT !.returned = TRUE, !.ret = ExtractFilename(call.url)]
    /\ UNCHANGED <<is_scanning, found_pdfs, results_tree, scan_btn, download_btns, events,
                   scan_workers, download_workers, files, started, reentrant, web>>

FilenameSpec == FilenameInit /\ [][ExtractFilenameCall]_vars

\* the names a link may end in: a few characters (";" starts the parameters of a
\* segment, "/" a new segment), then ".pdf", ".PDF" or nothing
LinkNames ==
    {stem \o ext :
        stem \in SeqsUpTo({"a", ";", "/"}, MaxText),
        ext \in {<<>>, <<".", "p", "d", "f">>, <<".", "P", "D", "F">>}}

\* what may follow the name: nothing, a query, a fragment, or both
LinkTails == {<<>>, <<"?", "v">>, <<"#", "p">>, <<"?", "v", "#", "p">>}

\* the pages whose links are classified: the page scanned or a followed page
LinkBases == {<<"h", "t", "t", "p", "s", ":", "/", "/", "h", "/">> \o name : name \in LinkNames}

\* the href attributes of the links: relative to the page or to the host, or a
\* fragment or a query alone; none is empty (run skips those)
LinkHrefs ==
    ({name \o tail : name \in LinkNames, tail \in LinkTails}
        \cup {<<"/">> \o name \o tail : name \in LinkNames, tail \in LinkTails}) \ {<<>>}

ClassifierInit ==
    /\ is_scanning = FALSE
    /\ found_pdfs = <<>>
    /\ results_tree = <<>>
    /\ scan_btn = TRUE
    /\ download_btns = FALSE
    /\ events = <<>>
    /\ scan_workers = [s \in ScanSlots |-> NoScan]
    /\ download_workers = [w \in DownloadSlots |-> NoDownload]
    /\ files = {}
    /\ started = [scans |-> MaxScans, batches |-> MaxBatches]
    /\ reentrant = FALSE
    /\ web = SmallWeb
    /\ \E base \in LinkBases, href \in LinkHrefs :
          call = [fn |-> "is_pdf_link", base |-> base, href |-> href,
                  url |-> Urljoin(base, href), returned |-> FALSE, ret |-> FALSE]

\* run resolves the href of a link against the URL of its page, and
\* _is_pdf_link classifies the resolved URL and the href
IsPdfLinkCall ==
    /\ call.fn = "is_pdf_link"
    /\ ~call.returned
    /\ call' = [call EXCEPT !.returned = TRUE, !.ret = IsPdfLink(call.url, call.href)]
    /\ UNCHANGED <<is_scanning, found_pdfs, results_tree, scan_btn, download_btns, events,
                   scan_workers, download_workers, files, started, reentrant, web>>

ClassifierSpec == ClassifierInit /\ [][IsPdfLinkCall]_vars

-----------------------------------------------------------------------------
(* The scan: claims checked under ScanSpec *)

\* C1: at most one ScanWorker is running at any time, a running ScanWorker
\* implies is_scanning, and a scan request made while is_scanning is set changes
\* neither the results nor the scan state and starts no worker
C1_OneScanInFlight ==
    /\ [](Cardinality(ActiveScans) <= 1 /\ (ActiveScans # {} => is_scanning))
    /\ [][(is_scanning /\ StartScan) =>
             UNCHANGED <<is_scanning, found_pdfs, results_tree, scan_btn, scan_workers, events>>]_vars

\* a scan request has been made and ignored while a ScanWorker was running
C1_Witness ==
    /\ reentrant
    /\ is_scanning
    /\ Cardinality(ActiveScans) = 1

\* the request for the main page failed: it raised, or, in a scan whose fetch
\* reports the status, it was answered with a status that is not 2xx
PrimaryFailed(c) == Len(c.status) >= 1 /\ c.status[1] # 200

\* C3: a scan whose primary fetch fails (the request raises, or the answer is
\* not 2xx) ends with exactly one scan_error and no scan_complete, having
\* delivered no results
C3_PrimaryFailureIsScanError ==
    \A s \in ScanSlots :
        (scan_workers[s].pc = "finished" /\ PrimaryFailed(scan_workers[s]))
            => /\ scan_workers[s].emitted = <<"scan_error">>
               /\ results_tree = <<>>
               /\ found_pdfs = <<>>

\* the Found Scripts of the pages a scan has parsed
ExpectedPdfs(c) ==
    UNION {PdfsOf(c.filter_text, c.fetched[c.seen[n].at], c.seen[n].links) : n \in 1..Len(c.seen)}

\* the requests for sub-pages that raised
RaisedSubPages(c) == {n \in c.raised : n > 1}

\* C4: a scan in which the fetch of some sub-page raised still ends with exactly
\* one scan_complete and no scan_error, and the list it emits holds every PDF
\* link, passing the filter, of the primary page and of each sub-page whose
\* fetch succeeded
C4_SubPageFailureTolerated ==
    \A s \in ScanSlots :
        (scan_workers[s].pc = "finished" /\ RaisedSubPages(scan_workers[s]) # {})
            => /\ scan_workers[s].emitted = <<"scan_complete">>
               /\ \E n \in 1..Len(events) :
                     /\ events[n].sig = "scan_complete"
                     /\ events[n].worker = s
                     /\ ExpectedPdfs(scan_workers[s]) \subseteq Range(events[n].pdfs)

\* a scan ended after one sub-page raised and another was parsed, with Found
\* Scripts to report
C4_Witness ==
    \E s \in ScanSlots :
        /\ scan_workers[s].pc = "finished"
        /\ RaisedSubPages(scan_workers[s]) # {}
        /\ Len(scan_workers[s].seen) >= 2
        /\ ExpectedPdfs(scan_workers[s]) # {}

\* the links of the primary page, among the first n, that run follows
Followed(c, n) ==
    {j \in 1..n :
        /\ c.all_links[j].href # <<>>
        /\ ~IsPdfLink(Urljoin(c.url, c.all_links[j].href), c.all_links[j].href)
        /\ IsFollowCandidate(Lower(c.all_links[j].text), c.all_links[j].href)}

\* C5: the first request of a scan is for the requested URL; with follow-links
\* off there is no other; with it on there is exactly one more for each link
\* of the primary page handled so far that is a follow candidate and not a
\* PDF link, each to that link's URL, so no link of a sub-page is requested
C5_DepthOne ==
    \A s \in ScanSlots :
        LET c == scan_workers[s]
            followed == Followed(c, c.k - 1)
        IN  c.pc \in {"links", "finished"} =>
               /\ Len(c.fetched) >= 1
               /\ c.fetched[1] = c.url
               /\ ~c.follow_links => Len(c.fetched) = 1
               /\ c.follow_links => Len(c.fetched) - 1 = Cardinality(followed)
               /\ \A n \in 2..Len(c.fetched) :
                     \E j \in followed : c.fetched[n] = Urljoin(c.url, c.all_links[j].href)

\* a scan with follow-links on ended after parsing a sub-page that held a
\* follow candidate, having requested only the main page and that sub-page
C5_Witness ==
    \E s \in ScanSlots :
        /\ scan_workers[s].pc = "finished"
        /\ scan_workers[s].follow_links
        /\ Len(scan_workers[s].fetched) = 2
        /\ Len(scan_workers[s].seen) = 2
        /\ \E j \in 1..Len(scan_workers[s].seen[2].links) :
              scan_workers[s].seen[2].links[j] = LinkS

-----------------------------------------------------------------------------
(* The downloads started from the window: claim checked under Spec *)

\* C2: at most one DownloadWorker is running at any time: none is started
\* while one started before has not yet emitted download_complete
C2_OneDownloadInFlight == Cardinality(ActiveDownloads) <= 1

-----------------------------------------------------------------------------
(* One batch: claims checked under DownloadSpec *)

\* the items of a batch whose last status is st
ItemsWith(d, st) == {k \in 1..Len(d.items) : d.status[k] = st}

\* C6: in a batch the failure of an item leaves the others alone: every item
\* before the current one has ended Downloaded or Failed and every later one is
\* still untouched; success_count is the number of items that ended
\* Downloaded; and when run ends every item has ended Downloaded or Failed, the
\* Failed ones are the total less success_count, and download_complete carries
\* success_count and the number of items
C6_FailureIsolation ==
    \A w \in DownloadSlots :
        LET d == download_workers[w]
        IN  /\ d.pc \in {"get", "write", "done"} =>
                  d.success_count = Cardinality(ItemsWith(d, "Downloaded"))
            /\ d.pc \in {"get", "write"} =>
                  /\ \A k \in 1..(d.i - 1) : d.status[k] \in {"Downloaded", "Failed"}
                  /\ \A k \in (d.i + 1)..Len(d.items) : d.status[k] = "Ready"
            /\ d.pc = "done" =>
                  /\ \A k \in 1..Len(d.items) : d.status[k] \in {"Downloaded", "Failed"}
                  /\ Cardinality(ItemsWith(d, "Failed")) = Len(d.items) - d.success_count
                  /\ \E n \in 1..Len(events) :
                        events[n] = [sig |-> "download_complete", worker |-> w,
                                     success_count |-> Cardinality(ItemsWith(d, "Downloaded")),
                                     total_count |-> Len(d.items)]

\* a batch has ended whose first item failed and whose second was downloaded
C6_Witness ==
    \E w \in DownloadSlots :
        /\ download_workers[w].pc = "done"
        /\ Len(download_workers[w].items) >= 2
        /\ download_workers[w].status[1] = "Failed"
        /\ download_workers[w].status[2] = "Downloaded"

\* C7: a DownloadWorker whose run has ended, whatever became of creating the
\* directory and of each item, has emitted download_complete exactly once
C7_BatchAlwaysReports ==
    \A w \in DownloadSlots :
        download_workers[w].pc \in {"done", "crashed"} => download_workers[w].completes = 1

\* name, which ends in ".pdf", with _n before the extension
Numbered(name, n) ==
    SubSeq(name, 1, Len(name) - Len(DOT_PDF)) \o <<"_">> \o IntStr(n) \o DOT_PDF

\* no item of a batch is saved over a file that was in the directory when the
\* batch began, or over a file saved earlier in the batch
NoOverwrite ==
    \A w \in DownloadSlots :
        \A k \in ItemsWith(download_workers[w], "Downloaded") :
            /\ download_workers[w].saved[k] \notin download_workers[w].dir0
            /\ \A j \in 1..(k - 1) : download_workers[w].saved[j] # download_workers[w].saved[k]

\* C8: every downloaded item is saved under a path that did not exist: its
\* filename name.pdf, or else name_1.pdf, name_2.pdf, ... with the smallest
\* free counter, over no file of the directory and no file of the batch; and
\* two items of one filename in an empty directory end as name.pdf and
\* name_1.pdf, 2 of 2
C8_CollisionFreePaths ==
    \A w \in DownloadSlots :
        LET d == download_workers[w]
        IN  /\ \A k \in ItemsWith(d, "Downloaded") :
                  /\ d.saved[k] \notin d.dir0
                  /\ \A j \in 1..(k - 1) : d.saved[j] # d.saved[k]
                  /\ \/ d.saved[k] = d.items[k].filename
                     \/ \E n \in 1..Cardinality(files) :
                           /\ d.saved[k] = Numbered(d.items[k].filename, n)
                           /\ d.items[k].filename \in files
                           /\ \A m \in 1..(n - 1) : Numbered(d.items[k].filename, m) \in files
            /\ ( /\ d.pc = "done"
                 /\ d.dir0 = {}
                 /\ Len(d.items) = 2
                 /\ d.items[1].filename = d.items[2].filename
                 /\ ItemsWith(d, "Downloaded") = {1, 2} )
               => /\ d.saved = <<d.items[1].filename, Numbered(d.items[1].filename, 1)>>
                  /\ d.success_count = 2

-----------------------------------------------------------------------------
(* The pure helpers: claims checked under FilterSpec and FilenameSpec *)

\* C9: an empty filter accepts every candidate, and a filter that is not empty
\* accepts a candidate only if it occurs in the lowercased URL or in the
\* lowercased anchor text
C9_FilterIsSubstringOfUrlOrText ==
    (call.fn = "matches_filter" /\ call.returned) =>
        /\ Lower(Strip(call.entry)) = <<>> => call.ret
        /\ (call.ret /\ Lower(Strip(call.entry)) # <<>>) =>
              \/ Contains(Lower(call.url), Lower(Strip(call.entry)))
              \/ Contains(Lower(call.text), Lower(Strip(call.entry)))

\* C10: the filename derived from a URL ends in ".pdf", and is "script.pdf"
\* when the path of the URL has no segment that is not empty
C10_FilenameEndsWithPdf ==
    (call.fn = "extract_filename" /\ call.returned) =>
        /\ EndsWith(call.ret, DOT_PDF)
        /\ NonEmpty(Split(UrlParse(call.url).path, "/")) = <<>> => call.ret = SCRIPT_PDF

\* the filename of a URL whose path is made of slashes alone has been derived
C10_Witness ==
    /\ call.fn = "extract_filename"
    /\ call.returned
    /\ Len(UrlParse(call.url).path) >= 2
    /\ NonEmpty(Split(UrlParse(call.url).path, "/")) = <<>>
    /\ call.ret = SCRIPT_PDF

\* the URL, less its fragment and its query, ends in ".pdf" in any case
EndsInPdf(url) == EndsWith(Lower(Before(Before(url, "#"), "?")), DOT_PDF)

\* C11: the classifier returns true for every resolved URL that ends in ".pdf"
\* in any case, whether or not a query or a fragment follows the ".pdf"
C11_PdfUrlIsPdfLink ==
    (call.fn = "is_pdf_link" /\ call.returned /\ EndsInPdf(call.url)) => call.ret

\* C12: whenever the status of a download item is written to a row of the
\* results, that row shows the item's URL, whatever was cleared or scanned
\* since the batch began
C12_StatusOnItsRow ==
    [][UpdateStatus =>
          (Head(events).row + 1 \in 1..Len(results_tree)
              => results_tree[Head(events).row + 1].url = Head(events).url)]_vars

\* the Found Scripts of the primary page and of the sub-pages that were
\* answered with status 200
PdfsOfFetchedPages(c) ==
    UNION {PdfsOf(c.filter_text, c.fetched[c.seen[n].at], c.seen[n].links) :
              n \in {n \in 1..Len(c.seen) : c.seen[n].at = 1 \/ c.status[c.seen[n].at] = 200}}

\* C13: a sub-page whose fetch fails, a status that is not 2xx being a failure,
\* adds nothing to the results of the scan: every Found Script comes from the
\* primary page or from a sub-page answered 2xx
C13_FailedSubPageAddsNothing ==
    \A s \in ScanSlots :
        scan_workers[s].pc \in {"links", "finished"}
            => scan_workers[s].found_pdfs \subseteq PdfsOfFetchedPages(scan_workers[s])

\* C14: in one scan no URL is requested twice, neither a follow candidate
\* that occurs several times on the primary page nor the primary URL itself
C14_EachUrlFetchedOnce ==
    \A s \in ScanSlots :
        \A i, j \in 1..Len(scan_workers[s].fetched) :
            i # j => scan_workers[s].fetched[i] # scan_workers[s].fetched[j]

====
